---- MODULE Spec2Model ----
(***************************************************************************)
(* State-machine model of torchsupport/modules/nodegraph.py:              *)
(* NodeGraphTensor (flat batched graph storage), its offset views and the *)
(* batching/merge operations.                                             *)
(*                                                                         *)
(* Python objects are modelled as a small heap.  `objs` maps an object     *)
(* name to the attributes every instance owns (num_graphs, offset,         *)
(* is_subgraph, the binding of _node_tensor); `store` holds the two list   *)
(* objects (graph_nodes, _adjacency) that a shallow copy shares with the   *)
(* batch it was copied from.  A Python exception is recorded in last.err   *)
(* together with whatever the call had already changed when it was raised. *)
(***************************************************************************)
EXTENDS Integers, Sequences, FiniteSets, TLC

VARIABLES objs, store, hist, last, part, trav, red, pool

vars == <<objs, store, hist, last, part, trav, red, pool>>

\* the state of the partitions, of a running traversal, of a reduce call and
\* of a pooling call; the batch operations below leave them alone
others == <<part, trav, red, pool>>

(* ------------------------------- bounds -------------------------------- *)
\* total number of adjacency lists (nodes) over all batches
MaxNodes == 2
\* total number of neighbour entries over all adjacency lists
MaxEntries == 2
\* cap on the stored graph count of one batch
MaxGraphs == 3

(* ------------------------------ universe ------------------------------- *)
\* the two batches a caller builds, a view of batch A, and the result slot
\* of batch_graphs
Roots == {"A", "B"}
Objs == {"A", "B", "V", "R"}

\* feature vectors handed to add_node: one of width 1, one of width 2
Feats == {<<1>>, <<0, 1>>}

Absent ==
  [exists |-> FALSE, num_graphs |-> 0, offset |-> 0, is_subgraph |-> FALSE,
   st |-> "A", node_tensor |-> <<>>]

NoStore == [graph_nodes |-> <<>>, adjacency |-> <<>>]

NoHist == [origin |-> "none", nOk |-> 0, rets |-> <<>>, torn |-> FALSE]

NoCall ==
  [op |-> "none", o |-> "A", g |-> "A", a |-> 0, b |-> 0, feat |-> <<>>,
   err |-> "none", ret |-> 0]

\* The class of a batch ("base" for NodeGraphTensor, "partitioned" for
\* PartitionedNodeGraphTensor; "none" where the class plays no role) and
\* PartitionedNodeGraphTensor.partition: a dict in insertion order, as a
\* sequence of [kind, nodes] items.  `err` is the exception raised by the
\* subclass method itself, `made` remembers the kind each add_node call asked
\* for, by the index the call returned, and `unregistered` that some call
\* named a kind that was not registered, and `appended` that append was called
\* on the batch.
NoPart ==
  [cls |-> "none", items |-> <<>>, err |-> "none", made |-> <<>>,
   unregistered |-> FALSE, appended |-> FALSE]

NoTrav == [pc |-> "idle"]

NoRed == [pc |-> "idle"]

NoPool == [pc |-> "idle"]

(* --------------------------- Python helpers ---------------------------- *)
Min(a, b) == IF a < b THEN a ELSE b

RECURSIVE Sum(_)
Sum(s) == IF s = <<>> THEN 0 ELSE Head(s) + Sum(Tail(s))

\* s[start:stop] for non-negative start, stop (Python clamps both to len)
Slice(s, start, stop) == SubSeq(s, Min(start, Len(s)) + 1, Min(stop, Len(s)))

\* s[i] raises IndexError unless -len <= i < len
ValidIndex(n, i) == -n <= i /\ i < n

\* the 0-based position s[i] denotes (negative i counts from the end)
PyIndex(n, i) == IF i >= 0 THEN i ELSE i + n

\* torch.cat along dim 0: every piece that is not the legacy empty tensor
\* must agree in the remaining dimensions (here: the width of a row)
CatOk(t, row) == t = <<>> \/ Len(t[1]) = Len(row)

(* ------------------------------ getters -------------------------------- *)
nodes_including(gn, graph_index) == Sum(Slice(gn, 0, graph_index + 1))

ViewStart(x, gn) ==
  IF x.offset = 0 THEN 0 ELSE nodes_including(gn, x.offset - 1)

ViewStop(x, gn) == nodes_including(gn, x.offset)

\* property adjacency of object record x over its store record s
adjacency(x, s) ==
  IF x.is_subgraph
    THEN Slice(s.adjacency, ViewStart(x, s.graph_nodes), ViewStop(x, s.graph_nodes))
    ELSE s.adjacency

\* property node_tensor of object record x over its store record s
node_tensor(x, s) ==
  IF x.is_subgraph
    THEN Slice(x.node_tensor, ViewStart(x, s.graph_nodes), ViewStop(x, s.graph_nodes))
    ELSE s.adjacency

\* position in the shared _adjacency list of entry 0 of the adjacency getter
ViewBase(x, s) ==
  IF x.is_subgraph
    THEN Min(ViewStart(x, s.graph_nodes), Len(s.adjacency))
    ELSE 0

TotalNodes == Len(store["A"].adjacency) + Len(store["B"].adjacency)

RECURSIVE Entries(_)
Entries(adj) == IF adj = <<>> THEN 0 ELSE Len(Head(adj)) + Entries(Tail(adj))

TotalEntries == Entries(store["A"].adjacency) + Entries(store["B"].adjacency)

(* ------------------------------ Init ----------------------------------- *)
InitBatch ==
  /\ objs = [o \in Objs |-> Absent]
  /\ store = [r \in Roots |-> NoStore]
  /\ hist = [r \in Roots |-> NoHist]
  /\ last = NoCall

Init ==
  /\ InitBatch
  /\ part = [r \in Roots |-> NoPart]
  /\ trav = NoTrav
  /\ red = NoRed
  /\ pool = NoPool

(* --------------------------- bookkeeping ------------------------------- *)
Call(op, o, g, a, b, feat, err, ret) ==
  [op |-> op, o |-> o, g |-> g, a |-> a, b |-> b, feat |-> feat,
   err |-> err, ret |-> ret]

\* the descriptors a caller passes to the constructor: a two-node graph with
\* one edge, a batch of two single-node graphs, and one whose counts (2) do
\* not sum to its number of feature rows (1)
DescEdge ==
  [num_graphs |-> 1, graph_nodes |-> <<2>>,
   adjacency |-> << <<1>>, <<0>> >>, node_tensor |-> << <<0>>, <<1>> >>]

DescTwo ==
  [num_graphs |-> 2, graph_nodes |-> <<1, 1>>,
   adjacency |-> << <<>>, <<>> >>, node_tensor |-> << <<0>>, <<1>> >>]

DescBad ==
  [num_graphs |-> 1, graph_nodes |-> <<2>>,
   adjacency |-> << <<>> >>, node_tensor |-> << <<0>> >>]

GraphDescs == {DescEdge, DescTwo, DescBad}

WellFormedDesc(d) ==
  /\ Sum(d.graph_nodes) = Len(d.node_tensor)
  /\ Len(d.adjacency) = Len(d.node_tensor)
  /\ d.num_graphs = Len(d.graph_nodes)

(* ---------------------------- constructor ------------------------------ *)
\* NodeGraphTensor(): graphdesc == None
NodeGraphTensorEmpty(o) ==
  /\ o \in Roots
  /\ ~objs[o].exists
  /\ objs' = [objs EXCEPT ![o] =
       [exists |-> TRUE, num_graphs |-> 1, offset |-> 0, is_subgraph |-> FALSE,
        st |-> o, node_tensor |-> <<>>]]
  /\ store' = [store EXCEPT ![o] = [graph_nodes |-> <<0>>, adjacency |-> <<>>]]
  /\ hist' = [hist EXCEPT ![o] = [NoHist EXCEPT !.origin = "empty"]]
  /\ last' = Call("init", o, o, 0, 0, <<>>, "none", 0)

\* NodeGraphTensor(graphdesc): the four fields are taken over unchecked
NodeGraphTensorDesc(o, d) ==
  /\ o \in Roots
  /\ ~objs[o].exists
  /\ TotalNodes + Len(d.adjacency) <= MaxNodes
  /\ TotalEntries + Entries(d.adjacency) <= MaxEntries
  /\ objs' = [objs EXCEPT ![o] =
       [exists |-> TRUE, num_graphs |-> d.num_graphs, offset |-> 0,
        is_subgraph |-> FALSE, st |-> o, node_tensor |-> d.node_tensor]]
  /\ store' = [store EXCEPT ![o] =
       [graph_nodes |-> d.graph_nodes, adjacency |-> d.adjacency]]
  /\ hist' = [hist EXCEPT ![o] =
       [NoHist EXCEPT !.origin = IF WellFormedDesc(d) THEN "good" ELSE "bad"]]
  /\ last' = Call("construct", o, o, 0, 0, <<>>, "none", 0)

(* ------------------------------ add_node ------------------------------- *)
\* torch.cat((t[:ni], row, t[ni:]), 0)
CatRows(t, ni, f) == Slice(t, 0, ni) \o <<f>> \o Slice(t, ni, Len(t))

\* a slip in the return value: the row count instead of the last row's index
AddNodeReturnOffByOne(t) == Len(t)

\* return self._node_tensor.size(0) - 1
AddNodeReturn(t) == Len(t) - 1

HistAddNode(h, ok, ret) ==
  IF ok THEN [h EXCEPT !.nOk = @ + 1, !.rets = Append(@, ret)]
        ELSE [h EXCEPT !.torn = TRUE]

add_node(o, f) ==
  /\ objs[o].exists
  /\ TotalNodes < MaxNodes
  /\ LET x == objs[o]
         s == store[x.st]
     IN IF x.num_graphs # 1
          THEN \* assert (self.num_graphs == 1)
               /\ last' = Call("add_node", o, o, 0, 0, f, "AssertionError", 0)
               /\ UNCHANGED <<objs, store, hist>>
        ELSE IF ~ValidIndex(Len(s.graph_nodes), x.offset)
          THEN \* self.graph_nodes[self.offset] raises
               /\ last' = Call("add_node", o, o, 0, 0, f, "IndexError", 0)
               /\ UNCHANGED <<objs, store, hist>>
        ELSE LET gn1 == [s.graph_nodes EXCEPT
                           ![PyIndex(Len(s.graph_nodes), x.offset) + 1] = @ + 1]
                 adj1 == Append(s.adjacency, <<>>)
                 ni == nodes_including(gn1, x.offset)
                 t1 == CatRows(x.node_tensor, ni, f)
             IN /\ store' = [store EXCEPT ![x.st] =
                               [graph_nodes |-> gn1, adjacency |-> adj1]]
                /\ IF CatOk(x.node_tensor, f)
                     THEN /\ objs' = [objs EXCEPT ![o].node_tensor = t1]
                          /\ last' = Call("add_node", o, o, 0, 0, f, "none",
                                          AddNodeReturn(t1))
                          /\ hist' = IF o \in Roots
                               THEN [hist EXCEPT ![o] =
                                       HistAddNode(@, TRUE, AddNodeReturn(t1))]
                               ELSE hist
                     ELSE \* torch.cat raises after both lists were changed
                          /\ last' = Call("add_node", o, o, 0, 0, f,
                                          "RuntimeError", 0)
                          /\ hist' = IF x.st \in Roots
                               THEN [hist EXCEPT ![x.st] =
                                       HistAddNode(@, FALSE, 0)]
                               ELSE hist
                          /\ UNCHANGED objs

(* ------------------------------ add_edge ------------------------------- *)
\* self.adjacency[source].append(target), on the shared list at position p
InsertTarget(adj, p, target) == [adj EXCEPT ![p + 1] = Append(@, target)]

\* a slip that records the edge in one direction only
InsertSourceDropped(adj, p, source) == adj

\* self.adjacency[target].append(source), on the shared list at position p
InsertSource(adj, p, source) == [adj EXCEPT ![p + 1] = Append(@, source)]

add_edge(o, source, target) ==
  /\ objs[o].exists
  /\ TotalEntries + 2 <= MaxEntries
  /\ LET x == objs[o]
         s == store[x.st]
         n == Len(adjacency(x, s))
         base == ViewBase(x, s)
         ps == base + PyIndex(n, source)
         pt == base + PyIndex(n, target)
     IN /\ source \in -1 .. n
        /\ target \in -1 .. n
        /\ UNCHANGED <<objs, hist>>
        /\ IF ~ValidIndex(n, source)
             THEN /\ last' = Call("add_edge", o, o, source, target, <<>>,
                                  "IndexError", 0)
                  /\ UNCHANGED store
           ELSE LET adj1 == InsertTarget(s.adjacency, ps, target)
                IN IF ~ValidIndex(n, target)
                     THEN \* the second subscript raises after the first append
                          /\ last' = Call("add_edge", o, o, source, target,
                                          <<>>, "IndexError", 0)
                          /\ store' = [store EXCEPT ![x.st].adjacency = adj1]
                   ELSE LET adj2 == InsertSource(adj1, pt, source)
                        IN /\ store' = [store EXCEPT ![x.st].adjacency = adj2]
                           /\ last' = Call("add_edge", o, o, source, target,
                                           <<>>, "none", Len(adj2[ps + 1]) - 1)

(* ----------------------------- select_view ----------------------------- *)
\* a window on graph k of batch A: a shallow copy that shares graph_nodes and
\* _adjacency with A and starts with A's binding of _node_tensor
select_view(k) ==
  /\ objs["A"].exists
  /\ ~objs["V"].exists
  /\ IF objs["A"].num_graphs > 1
       THEN /\ k \in 0 .. objs["A"].num_graphs - 1
            /\ objs' = [objs EXCEPT !["V"] =
                 [objs["A"] EXCEPT !.is_subgraph = TRUE, !.offset = k]]
            /\ last' = Call("select_view", "A", "V", k, 0, <<>>, "none", 0)
       ELSE \* assert (self.num_graphs > 1)
            /\ k = 0
            /\ last' = Call("select_view", "A", "V", k, 0, <<>>,
                            "AssertionError", 0)
            /\ UNCHANGED objs
  /\ UNCHANGED <<store, hist>>

(* ----------------------------- __getitem__ ----------------------------- *)
\* self[idx] on batch A: the body after the assert is a TODO that returns
\* None, recorded as the result "None" (no object)
getitem(idx) ==
  /\ objs["A"].exists
  /\ UNCHANGED <<objs, store, hist>>
  /\ IF objs["A"].num_graphs > 1
       THEN /\ idx \in 0 .. objs["A"].num_graphs - 1
            /\ last' = Call("getitem", "A", "None", idx, 0, <<>>, "none", 0)
       ELSE \* assert (self.num_graphs > 1)
            /\ idx = 0
            /\ last' = Call("getitem", "A", "None", idx, 0, <<>>,
                            "AssertionError", 0)

(* ------------------------------- append -------------------------------- *)
\* self.append(graph_tensor).  Line 77 is an augmented assignment to the
\* read-only property `adjacency`: its right-hand side adds an int to every
\* adjacency list of graph_tensor (TypeError as soon as there is one), and
\* its store into the property raises AttributeError otherwise, so lines
\* 79-80 are never reached.
\* self.num_graphs += graph_tensor.num_graphs, with the operands exchanged
AppendNumGraphsSwapped(ob, o, g) ==
  [ob EXCEPT ![g].num_graphs = @ + ob[o].num_graphs]

\* self.num_graphs += graph_tensor.num_graphs
AppendNumGraphs(ob, o, g) ==
  [ob EXCEPT ![o].num_graphs = @ + ob[g].num_graphs]

append(o, g) ==
  /\ objs[o].exists
  /\ objs[g].exists
  /\ objs[o].num_graphs + objs[g].num_graphs <= MaxGraphs
  /\ UNCHANGED <<store, hist>>
  /\ LET x == objs[o]
         y == objs[g]
     IN IF x.offset # 0
          THEN \* assert(self.offset == 0)
               /\ last' = Call("append", o, g, 0, 0, <<>>, "AssertionError", 0)
               /\ UNCHANGED objs
        ELSE /\ objs' = AppendNumGraphs(objs, o, g)
             /\ last' = Call("append", o, g, 0, 0, <<>>,
                   IF adjacency(y, store[y.st]) # <<>>
                     THEN "TypeError" ELSE "AttributeError", 0)

(* ---------------------------- batch_graphs ----------------------------- *)
\* result = deepcopy(graph[0]): the name `graph` is bound nowhere, so the
\* call raises NameError before anything is copied or appended
batch_graphs(gs) ==
  /\ \A i \in 1 .. Len(gs) : objs[gs[i]].exists
  /\ last' = Call("batch_graphs", gs[1], gs[Len(gs)], Len(gs), 0, <<>>,
                  "NameError", 0)
  /\ UNCHANGED <<objs, store, hist>>

\* the calls the modelled client makes: it builds A and B, adds edges to A
\* (directly or through the view V), and merges B into A
GraphLists == {<<"A">>, <<"A", "B">>}

Callers == {"A", "B", "V"}

Targets == {"A", "V"}

Next ==
  \/ \E o \in Roots : NodeGraphTensorEmpty(o) /\ UNCHANGED others
  \/ \E o \in Roots, d \in GraphDescs : NodeGraphTensorDesc(o, d) /\ UNCHANGED others
  \/ \E o \in Callers, f \in Feats : add_node(o, f) /\ UNCHANGED others
  \/ \E o \in Targets, i \in -1 .. MaxNodes, j \in -1 .. MaxNodes :
       add_edge(o, i, j) /\ UNCHANGED others
  \/ \E k \in 0 .. MaxGraphs - 1 : select_view(k) /\ UNCHANGED others
  \/ \E k \in 0 .. MaxGraphs - 1 : getitem(k) /\ UNCHANGED others
  \/ \E o \in Targets : append(o, "B") /\ UNCHANGED others
  \/ \E gs \in GraphLists : batch_graphs(gs) /\ UNCHANGED others

Spec == Init /\ [][Next]_vars

(* ================== PartitionedNodeGraphTensor ========================== *)
\* partition names: the default key None and two names for add_kind
Kinds == {"k1", "k2"}
AllKinds == {"None"} \cup Kinds

\* bound on the node indices held by one partition dict
MaxPartition == 3

RECURSIVE PartitionSize(_)
PartitionSize(items) ==
  IF items = <<>> THEN 0
  ELSE Len(items[1].nodes) + PartitionSize(Tail(items))

HasKey(items, kind) == \E i \in 1 .. Len(items) : items[i].kind = kind

KeyPos(items, kind) == CHOOSE i \in 1 .. Len(items) : items[i].kind = kind

\* partition[kind]
Get(items, kind) == items[KeyPos(items, kind)].nodes

\* partition[kind] = nodes (an existing key keeps its place in the dict)
Put(items, kind, nodes) ==
  IF HasKey(items, kind)
    THEN [items EXCEPT ![KeyPos(items, kind)].nodes = nodes]
    ELSE Append(items, [kind |-> kind, nodes |-> nodes])

\* NodeGraphTensor() in the world of both classes
BaseEmpty(o) ==
  /\ NodeGraphTensorEmpty(o)
  /\ part' = [part EXCEPT ![o] = [NoPart EXCEPT !.cls = "base"]]
  /\ UNCHANGED <<trav, red, pool>>

\* PartitionedNodeGraphTensor(): the base constructor, then
\* partition_view = None and partition = { None: [] }
PartitionedNodeGraphTensorEmpty(o) ==
  /\ NodeGraphTensorEmpty(o)
  /\ part' = [part EXCEPT ![o] =
       [NoPart EXCEPT !.cls = "partitioned",
                      !.items = << [kind |-> "None", nodes |-> <<>>] >>]]
  /\ UNCHANGED <<trav, red, pool>>

\* add_kind(name): self.partition[name] = []
add_kind(o, name) ==
  /\ objs[o].exists
  /\ part[o].cls = "partitioned"
  /\ part' = [part EXCEPT ![o].items = Put(@, name, <<>>), ![o].err = "none"]
  /\ last' = Call("add_kind", o, o, 0, 0, <<>>, "none", 0)
  /\ UNCHANGED <<objs, store, hist, trav, red, pool>>

\* what add_node(node_tensor, kind) does after super().add_node(...) ended
\* as recorded in `call`: self.partition[kind].append(node)
PartitionAfterAddNode(p, kind, call) ==
  IF call.err # "none" THEN [p EXCEPT !.err = "none"]
  ELSE IF ~HasKey(p.items, kind)
    THEN [p EXCEPT !.err = "KeyError", !.unregistered = TRUE,
                   !.made = Append(@, kind)]
  ELSE [p EXCEPT !.err = "none", !.made = Append(@, kind),
                 !.items = Put(@, kind, Append(Get(p.items, kind), call.ret))]

Partitioned_add_node(o, f, kind) ==
  /\ part[o].cls = "partitioned"
  /\ add_node(o, f)
  /\ part' = [part EXCEPT ![o] = PartitionAfterAddNode(@, kind, last')]
  /\ UNCHANGED <<trav, red, pool>>

\* the loop of append: `done` kinds of self.partition have been extended.
\* graph_tensor.partition[kind] raises KeyError for a kind graph_tensor lacks
\* (AttributeError if it is no partitioned batch at all).
RECURSIVE ExtendKinds(_, _, _, _)
ExtendKinds(mine, theirs, shift, done) ==
  IF done = Len(mine) THEN [items |-> mine, err |-> "none"]
  ELSE LET kind == mine[done + 1].kind
       IN IF ~HasKey(theirs, kind) THEN [items |-> mine, err |-> "KeyError"]
          ELSE ExtendKinds(
                 [mine EXCEPT ![done + 1].nodes =
                    @ \o [i \in 1 .. Len(Get(theirs, kind)) |->
                            Get(theirs, kind)[i] + shift]],
                 theirs, shift, done + 1)

\* PartitionedNodeGraphTensor.append: after the loop,
\* super(self, PartitionedNodeGraphTensor) raises TypeError (its first
\* argument must be a type), so the base append is never called
Partitioned_append(o, g) ==
  /\ objs[o].exists
  /\ objs[g].exists
  /\ part[o].cls = "partitioned"
  /\ objs[o].num_graphs + objs[g].num_graphs <= MaxGraphs
  /\ LET loop == IF part[g].cls # "partitioned"
                   THEN [items |-> part[o].items, err |-> "AttributeError"]
                   ELSE ExtendKinds(part[o].items, part[g].items,
                                    Len(store[objs[o].st].adjacency), 0)
         err == IF loop.err # "none" THEN loop.err ELSE "TypeError"
     IN /\ PartitionSize(loop.items) <= MaxPartition
        /\ part' = [part EXCEPT ![o].items = loop.items, ![o].err = err,
                                ![o].appended = TRUE]
        /\ last' = Call("append", o, g, 0, 0, <<>>, err, 0)
  /\ UNCHANGED <<objs, store, hist, trav, red, pool>>

(* -------------------- NodeGraphNeighbourhood.forward -------------------- *)
\* the argument of forward: the batch itself or one of its partition views
\* (all() -> None, none() -> the string 'none', a kind's selector -> the kind)
Selections == {"None", "none"} \cup Kinds

\* partition = range(N), or graph.partition[graph.partition_view]
ActiveNodes(o, sel) ==
  IF part[o].cls = "partitioned" /\ sel # "None"
    THEN Get(part[o].items, sel)
    ELSE [i \in 1 .. Len(objs[o].node_tensor) |-> i - 1]

\* forward(graph) with the default traversal and a statistic reducer
\* (NodeNeighbourhoodMean/Sum/Max/Min): the reducer starts with
\* torch.zeros_like(graph.node_tensor), and the getter hands it the list
\* _adjacency unless the batch is an offset view, so it raises TypeError
\* before graph._node_tensor is rebound
forward(o, sel) ==
  /\ objs[o].exists
  /\ part[o].cls \in {"base", "partitioned"}
  /\ part[o].cls = "base" => sel = "None"
  /\ ~objs[o].is_subgraph
  /\ UNCHANGED <<objs, store, hist, part, trav, red, pool>>
  /\ LET x == objs[o]
         s == store[x.st]
     IN IF part[o].cls = "partitioned" /\ sel # "None"
             /\ ~HasKey(part[o].items, sel)
          THEN last' = Call("forward", o, sel, 0, 0, <<>>, "KeyError", 0)
        ELSE IF \E i \in 1 .. Len(ActiveNodes(o, sel)) :
                  ~ValidIndex(Len(adjacency(x, s)), ActiveNodes(o, sel)[i])
          THEN \* graph.adjacency[entity] in the traversal
               last' = Call("forward", o, sel, 0, 0, <<>>, "IndexError", 0)
        ELSE \* torch.zeros_like(graph.node_tensor) on a list
             last' = Call("forward", o, sel, 0, 0, <<>>, "TypeError", 0)

NextPart ==
  \/ BaseEmpty("B")
  \/ \E o \in Roots : PartitionedNodeGraphTensorEmpty(o)
  \/ \E o \in Roots, name \in Kinds : add_kind(o, name)
  \/ \E f \in Feats :
       part["B"].cls = "base" /\ add_node("B", f) /\ UNCHANGED others
  \/ \E o \in Roots, f \in Feats, kind \in AllKinds : Partitioned_add_node(o, f, kind)
  \/ Partitioned_append("A", "B")
  \/ \E sel \in Selections : forward("A", sel)

SpecPart == Init /\ [][NextPart]_vars

(* ====================== standard_node_traversal ======================== *)
\* bounds of the traversal runs: the depth argument, and the length of an
\* adjacency list of the small graphs
MaxDepth == 2
MaxDegree == 2

\* the path 0-1-2-3-4 with each node's neighbours listed in ascending and in
\* descending order, and a triangle
PathAscending == << <<1>>, <<0, 2>>, <<1, 3>>, <<2, 4>>, <<3>> >>
PathDescending == << <<1>>, <<2, 0>>, <<3, 1>>, <<4, 2>>, <<3>> >>
Triangle == << <<1, 2>>, <<2, 0>>, <<0, 1>> >>

\* every pair of adjacency lists over the nodes 0 and 1: isolated nodes,
\* self-loops, repeated entries, cycles and one-way edges
SmallLists == UNION {[1 .. n -> {0, 1}] : n \in 0 .. MaxDegree}
SmallGraphs == {<<a, b>> : a \in SmallLists, b \in SmallLists}

TravGraphs == {PathAscending, PathDescending, Triangle} \cup SmallGraphs

Range(seq) == {seq[i] : i \in 1 .. Len(seq)}

RECURSIVE Ascending(_)
Ascending(S) ==
  IF S = {} THEN <<>>
  ELSE LET m == CHOOSE x \in S : \A y \in S : x <= y
       IN <<m>> \o Ascending(S \ {m})

\* nodes = list(set(nodes)), but keeping every entry
ListOfSetKeepsDuplicates(nodes) == nodes

\* nodes = list(set(nodes)): each value once (listed here in ascending order;
\* the callers use the list as a collection only)
ListOfSet(nodes) == Ascending(Range(nodes))

\* the recursive call passes d itself
ChildDepthNotDecreased(d) == d

\* the recursive call passes d - 1
ChildDepth(d) == d - 1

\* a call function(graph, entity, d) that has just started: at d == 0 it is
\* about to return [entity], otherwise nodes = [entity] + edges and the loop
\* over edges is at its first entry
Frame(g, entity, d) ==
  [entity |-> entity, d |-> d, i |-> 1,
   nodes |-> IF d = 0 THEN <<entity>> ELSE <<entity>> \o g[entity + 1]]

TopFrame == trav.stack[Len(trav.stack)]
TopEdges == trav.graph[TopFrame.entity + 1]

\* the loop body for an entry equal to the node itself: nothing happens
TraversalSkip ==
  /\ trav.pc = "run"
  /\ TopFrame.d # 0
  /\ TopFrame.i <= Len(TopEdges)
  /\ TopEdges[TopFrame.i] = TopFrame.entity
  /\ trav' = [trav EXCEPT !.stack[Len(trav.stack)].i = @ + 1]
  /\ UNCHANGED <<objs, store, hist, last, part, red, pool>>

\* the loop body for another node: function(graph, new_node, d - 1) is called
TraversalExpand ==
  /\ trav.pc = "run"
  /\ TopFrame.d # 0
  /\ TopFrame.i <= Len(TopEdges)
  /\ TopEdges[TopFrame.i] # TopFrame.entity
  /\ Len(trav.stack) <= MaxDepth + 1
  /\ trav' = [trav EXCEPT !.stack =
       Append(@, Frame(trav.graph, TopEdges[TopFrame.i], ChildDepth(TopFrame.d)))]
  /\ UNCHANGED <<objs, store, hist, last, part, red, pool>>

\* the call on top returns: [entity] at d == 0, list(set(nodes)) after the
\* loop; the caller does nodes += new_nodes and moves to its next entry
TraversalReturn ==
  /\ trav.pc = "run"
  /\ TopFrame.d = 0 \/ TopFrame.i > Len(TopEdges)
  /\ LET ret == IF TopFrame.d = 0 THEN TopFrame.nodes
                ELSE ListOfSet(TopFrame.nodes)
         n == Len(trav.stack)
     IN IF n = 1
          THEN trav' = [trav EXCEPT !.pc = "done", !.stack = <<>>, !.result = ret]
          ELSE trav' = [trav EXCEPT !.stack =
                 [SubSeq(trav.stack, 1, n - 1) EXCEPT
                    ![n - 1].nodes = @ \o ret, ![n - 1].i = @ + 1]]
  /\ UNCHANGED <<objs, store, hist, last, part, red, pool>>

\* standard_node_traversal(depth)(graph, entity) has just been called
InitTrav ==
  /\ InitBatch
  /\ part = [r \in Roots |-> NoPart]
  /\ red = NoRed
  /\ pool = NoPool
  /\ \E g \in TravGraphs, entity \in 0 .. 4, depth \in 0 .. MaxDepth :
       /\ entity < Len(g)
       /\ trav = [pc |-> "run", graph |-> g, entity |-> entity, depth |-> depth,
                  stack |-> <<Frame(g, entity, depth)>>, result |-> <<>>]

NextTrav ==
  \/ TraversalSkip
  \/ TraversalExpand
  \/ TraversalReturn

\* a call that is running runs on: the interpreter executes one thread
SpecTrav == InitTrav /\ [][NextTrav]_vars /\ WF_vars(NextTrav)

(* ===================== ConnectedModule.reduce ========================== *)
\* bounds of the reduce calls: number of neighbour messages, feature width
MaxMsgs == 2
MsgWidth == 2

MsgVals == {1, 2}
MsgVectors == [1 .. MsgWidth -> MsgVals]

StatisticKinds == {"mean", "sum", "min", "max", "median"}
AttentionKinds == {"attention", "dot_attention"}

\* tensor entries as fractions; a zero denominator is NaN
Rat(n, d) == [num |-> n, den |-> d]

Column(msgs, c) == [i \in 1 .. Len(msgs) |-> msgs[i][c]]

SeqMin(col) == CHOOSE x \in Range(col) : \A y \in Range(col) : x <= y
SeqMax(col) == CHOOSE x \in Range(col) : \A y \in Range(col) : x >= y

RECURSIVE Sorted(_)
Sorted(col) ==
  IF col = <<>> THEN <<>>
  ELSE LET k == CHOOSE i \in 1 .. Len(col) : \A j \in 1 .. Len(col) : col[i] <= col[j]
       IN <<col[k]>> \o Sorted([i \in 1 .. Len(col) - 1 |->
                                  IF i < k THEN col[i] ELSE col[i + 1]])

\* torch.median returns the lower of the two middle values
LowerMedian(col) == Sorted(col)[(Len(col) + 1) \div 2]

\* self.reduction(source_message, dim=0) for torch.mean / sum / min / max /
\* median over messages of shape (n, MsgWidth).  With n = 0: the mean is 0/0
\* in every column, the sum is 0, and min / max / median raise because a
\* reduction over a dimension of size zero has no value.
Reduction(kind, msgs) ==
  IF kind = "mean"
    THEN [err |-> "none",
          value |-> [c \in 1 .. MsgWidth |-> Rat(Sum(Column(msgs, c)), Len(msgs))]]
  ELSE IF kind = "sum"
    THEN [err |-> "none",
          value |-> [c \in 1 .. MsgWidth |-> Rat(Sum(Column(msgs, c)), 1)]]
  ELSE IF msgs = <<>>
    THEN [err |-> "RuntimeError", value |-> <<>>]
  ELSE [err |-> "none",
        value |-> [c \in 1 .. MsgWidth |->
           Rat(CASE kind = "min" -> SeqMin(Column(msgs, c))
                 [] kind = "max" -> SeqMax(Column(msgs, c))
                 [] OTHER -> LowerMedian(Column(msgs, c)), 1)]]

\* torch.Tensor.sum(attention * source_message, dim=0), one weight a message
WeightedSum(weights, msgs) ==
  [c \in 1 .. MsgWidth |->
     Rat(Sum([i \in 1 .. Len(msgs) |-> weights[i] * msgs[i][c]]), 1)]

\* func.softmax(target + source, dim=1) on a tensor of shape (n, 1): the
\* normalised dimension has one entry, so every weight is 1
SoftmaxOverOneColumn(n) == [i \in 1 .. n |-> 1]

\* NeighbourReducer.reduce(own_data, source_message)
NeighbourReducer_reduce ==
  /\ red.pc = "called"
  /\ red.kind \in StatisticKinds
  /\ red' = [red EXCEPT !.pc = "returned", !.out = Reduction(red.kind, red.msgs)]
  /\ UNCHANGED <<objs, store, hist, last, part, trav, pool>>

\* NeighbourAttention.reduce(own_data, source_message)
NeighbourAttention_reduce ==
  /\ red.pc = "called"
  /\ red.kind = "attention"
  /\ red' = [red EXCEPT !.pc = "returned",
       !.out = [err |-> "none", value |-> WeightedSum(red.weights, red.msgs)]]
  /\ UNCHANGED <<objs, store, hist, last, part, trav, pool>>

\* NeighbourDotAttention.reduce(own_data, source_message)
NeighbourDotAttention_reduce ==
  /\ red.pc = "called"
  /\ red.kind = "dot_attention"
  /\ red' = [red EXCEPT !.pc = "returned",
       !.out = [err |-> "none",
                value |-> WeightedSum(SoftmaxOverOneColumn(Len(red.msgs)), red.msgs)]]
  /\ UNCHANGED <<objs, store, hist, last, part, trav, pool>>

\* reduce(own_data, source_message) has just been called on one of the
\* modules; `weights` is what the attention callable of NeighbourAttention
\* gives for the messages
InitReduce ==
  /\ InitBatch
  /\ part = [r \in Roots |-> NoPart]
  /\ trav = NoTrav
  /\ pool = NoPool
  /\ \E kind \in StatisticKinds \cup AttentionKinds, own \in MsgVectors,
        n \in 0 .. MaxMsgs :
       \E msgs \in [1 .. n -> MsgVectors], weights \in [1 .. n -> {0, 1}] :
         /\ kind # "attention" => weights = [i \in 1 .. n |-> 1]
         /\ red = [pc |-> "called", kind |-> kind, own |-> own, msgs |-> msgs,
                   weights |-> weights, out |-> [err |-> "none", value |-> <<>>]]

NextReduce ==
  \/ NeighbourReducer_reduce
  \/ NeighbourAttention_reduce
  \/ NeighbourDotAttention_reduce

SpecReduce == InitReduce /\ [][NextReduce]_vars

(* ======================= MILAttention.combine ========================== *)
\* bound of the pooling calls: number of nodes
MaxPool == 3

GroupIds == {0, 1, 2}
Logits == {0, 1}
PoolVals == {1, 2}

\* e^x of a logit, modelled by 2^x
Exp2(x) == IF x = 0 THEN 1 ELSE 2

\* scatter.softmax(logits, indices): softmax within the nodes that share a
\* group id
SegmentSoftmax(logits, indices) ==
  [i \in 1 .. Len(logits) |->
     Rat(Exp2(logits[i]),
         Sum([j \in 1 .. Len(logits) |->
                IF indices[j] = indices[i] THEN Exp2(logits[j]) ELSE 0]))]

\* a / b + c / d
RatAdd(x, y) == Rat(x.num * y.den + y.num * x.den, x.den * y.den)

RECURSIVE RatSum(_)
RatSum(terms) ==
  IF terms = <<>> THEN Rat(0, 1) ELSE RatAdd(Head(terms), RatSum(Tail(terms)))

\* scatter.sum(weight * value): the call hands over the products only, not
\* the group ids, so the callee either rejects the call for the missing
\* argument or adds up all the rows it was given
ScatterSumOutcomes(products) ==
  { [err |-> "TypeError", rows |-> <<>>],
    [err |-> "none", rows |-> << RatSum(products) >>] }

\* MILAttention.combine(nodes, indices), one head, value and logit per node
combine ==
  /\ pool.pc = "called"
  /\ LET weight == SegmentSoftmax(pool.logits, pool.indices)
         products == [i \in 1 .. Len(weight) |->
                        Rat(weight[i].num * pool.values[i], weight[i].den)]
     IN \E out \in ScatterSumOutcomes(products) :
          pool' = [pool EXCEPT !.pc = "returned", !.weight = weight, !.out = out]
  /\ UNCHANGED <<objs, store, hist, last, part, trav, red>>

NonDecreasing(seq) == \A i \in 1 .. Len(seq) - 1 : seq[i] <= seq[i + 1]

\* combine(nodes, indices) has just been called; the group ids of a batch
\* are listed graph after graph
InitPool ==
  /\ InitBatch
  /\ part = [r \in Roots |-> NoPart]
  /\ trav = NoTrav
  /\ red = NoRed
  /\ \E n \in 1 .. MaxPool :
       \E indices \in [1 .. n -> GroupIds], logits \in [1 .. n -> Logits],
          values \in [1 .. n -> PoolVals] :
         /\ NonDecreasing(indices)
         /\ pool = [pc |-> "called", indices |-> indices, logits |-> logits,
                    values |-> values, weight |-> <<>>,
                    out |-> [err |-> "none", rows |-> <<>>]]

NextPool == combine

SpecPool == InitPool /\ [][NextPool]_vars

(* ======================= properties of the batch ======================== *)
Features(o) == objs[o].node_tensor
Counts(o) == store[objs[o].st].graph_nodes
Lists(o) == store[objs[o].st].adjacency

\* the data-model invariants of a batch
WellFormed(o) ==
  /\ objs[o].exists
  /\ Sum(Counts(o)) = Len(Features(o))
  /\ Len(Lists(o)) = Len(Features(o))
  /\ objs[o].num_graphs = Len(Counts(o))

\* a call append(A, B) on the root batch A with both operands well formed
AppendStep ==
  /\ last'.op = "append"
  /\ last'.o = "A"
  /\ WellFormed("A")
  /\ WellFormed("B")

Shifted(adj, n) ==
  [k \in 1 .. Len(adj) |-> [i \in 1 .. Len(adj[k]) |-> adj[k][i] + n]]

\* the view selecting graph k of the batch with object record x
ViewOf(x, k) == [x EXCEPT !.is_subgraph = TRUE, !.offset = k]

\* the bounds of graph k in a batch with counts gn
RangeOf(gn, k) ==
  [start |-> IF k = 0 THEN 0 ELSE nodes_including(gn, k - 1),
   stop |-> nodes_including(gn, k)]

\* C1: append(A, B) on a root batch A leaves A's features equal to
\* A.features followed by B.features, A's graph_node_counts equal to A.counts
\* followed by B.counts, and A's graph count equal to the sum of both counts.
C1_AppendConcatenates ==
  [][AppendStep =>
       /\ objs'["A"].node_tensor = Features("A") \o Features("B")
       /\ store'["A"].graph_nodes = Counts("A") \o Counts("B")
       /\ objs'["A"].num_graphs = objs["A"].num_graphs + objs["B"].num_graphs
    ]_vars

\* C2: append(A, B) keeps A's adjacency lists, and puts the list of B's node
\* k at index |A| + k with every neighbour index increased by |A|.
C2_AppendRebases ==
  [][AppendStep =>
       LET n == Len(Lists("A"))
           after == store'["A"].adjacency
       IN /\ Len(after) = n + Len(Lists("B"))
          /\ SubSeq(after, 1, n) = Lists("A")
          /\ SubSeq(after, n + 1, Len(after)) = Shifted(Lists("B"), n)
    ]_vars

\* C3: a failed add_node, add_edge or append (here: on a batch that was well
\* formed before the call) leaves every field of every batch as it was
\* before the call.
C3_FailureIsAtomic ==
  [][(/\ last'.op \in {"add_node", "add_edge", "append"}
      /\ last'.err # "none"
      /\ WellFormed(objs[last'.o].st))
       => (objs' = objs /\ store' = store)
    ]_vars

\* C4: after n calls of add_node on an empty batch, all of which returned,
\* graph_node_counts[0] = n, the feature array has n rows and the i-th call
\* returned i - 1.
C4_AddNodeCounts ==
  \A r \in Roots :
    (objs[r].exists /\ hist[r].origin = "empty" /\ ~hist[r].torn) =>
      /\ Counts(r)[1] = hist[r].nOk
      /\ Len(Features(r)) = hist[r].nOk
      /\ hist[r].rets = [i \in 1 .. hist[r].nOk |-> i - 1]

C4_Witness ==
  /\ hist["A"].origin = "empty"
  /\ ~hist["A"].torn
  /\ hist["A"].nOk = 2
  /\ last.op = "add_node"
  /\ last.err = "none"
  /\ last.ret = 1

\* C5: after add_edge(i, j) with 0 <= i, j < N_total returns, j is in
\* adjacency[i], i is in adjacency[j], and no other adjacency list changed.
C5_AddEdgeSymmetric ==
  [][(/\ last'.op = "add_edge"
      /\ last'.err = "none"
      /\ last'.a \in 0 .. Len(adjacency(objs[last'.o], store[objs[last'.o].st])) - 1
      /\ last'.b \in 0 .. Len(adjacency(objs[last'.o], store[objs[last'.o].st])) - 1)
       => LET x == objs[last'.o]
              before == adjacency(x, store[x.st])
              after == adjacency(x, store'[x.st])
              i == last'.a + 1
              j == last'.b + 1
              base == ViewBase(x, store[x.st])
          IN /\ \E q \in 1 .. Len(after[i]) : after[i][q] = last'.b
             /\ \E q \in 1 .. Len(after[j]) : after[j][q] = last'.a
             /\ Len(store'[x.st].adjacency) = Len(store[x.st].adjacency)
             /\ \A p \in 1 .. Len(store[x.st].adjacency) :
                  p \notin {base + i, base + j} =>
                    store'[x.st].adjacency[p] = store[x.st].adjacency[p]
             /\ \A r \in Roots \ {x.st} : store'[r] = store[r]
    ]_vars

C5_Witness ==
  /\ last.op = "add_edge"
  /\ last.err = "none"
  /\ last.o = "A"
  /\ last.a = 0
  /\ last.b = 1
  /\ Lists("A") = << <<1>>, <<0>> >>

\* what merging the batches A and B has to produce
MergedFeatures == Features("A") \o Features("B")
MergedCounts == Counts("A") \o Counts("B")
MergedLists == Lists("A") \o Shifted(Lists("B"), Len(Lists("A")))

\* C6: after a merge, the view of graph k yields exactly the feature rows of
\* input graph k and its adjacency lists shifted by the number of nodes that
\* precede it; batch_graphs returns such a merged batch.
C6_RoundTrip ==
  [][/\ AppendStep =>
          \A k \in 0 .. Len(MergedCounts) - 1 :
            LET v == ViewOf(objs'["A"], k)
                r == RangeOf(MergedCounts, k)
            IN /\ node_tensor(v, store'["A"]) = Slice(MergedFeatures, r.start, r.stop)
               /\ adjacency(v, store'["A"]) = Slice(MergedLists, r.start, r.stop)
     /\ (last'.op = "batch_graphs" /\ WellFormed("A")) =>
          /\ last'.err = "none"
          /\ objs'["R"].exists
          /\ node_tensor(ViewOf(objs'["R"], 0), store'[objs'["R"].st])
               = Slice(Features("A"), 0, Counts("A")[1])
    ]_vars

\* C7: add_edge(i, j) raises IndexError whenever i or j lies outside
\* [0, N_total), negative indices included.
C7_EdgeIndexChecked ==
  (/\ last.op = "add_edge"
   /\ last.o = "A"
   /\ WellFormed("A")
   /\ \/ last.a \notin 0 .. Len(Features("A")) - 1
      \/ last.b \notin 0 .. Len(Features("A")) - 1)
    => last.err = "IndexError"

\* the only rejection of a view the code has is a failing assert
ViewError == "AssertionError"

C9_ConstructionValidated ==
  (last.op = "construct" /\ last.err = "none")
    => Sum(Counts(last.o)) = Len(Features(last.o))

\* C10: every batch that started empty or from a well-formed descriptor keeps
\* sum(graph_node_counts) = feature rows = adjacency lists, and its graph
\* count equal to the length of graph_node_counts.
C10_CountsAgree ==
  \A r \in Roots :
    (objs[r].exists /\ hist[r].origin \in {"empty", "good"}) =>
      /\ Sum(Counts(r)) = Len(Features(r))
      /\ Sum(Counts(r)) = Len(Lists(r))
      /\ objs[r].num_graphs = Len(Counts(r))

\* C11: in a batch built from an empty one by add_node, add_edge and append,
\* every stored neighbour index lies in [0, N_total) and adjacency is
\* symmetric.
C11_AdjacencyValid ==
  \A r \in Roots :
    (objs[r].exists /\ hist[r].origin = "empty") =>
      \A i \in 1 .. Len(Lists(r)) :
        \A q \in 1 .. Len(Lists(r)[i]) :
          LET j == Lists(r)[i][q]
          IN /\ j \in 0 .. Len(Features(r)) - 1
             /\ j + 1 \in 1 .. Len(Lists(r))
             /\ \E p \in 1 .. Len(Lists(r)[j + 1]) : Lists(r)[j + 1][p] = i - 1

\* C17: selecting graph k of a batch yields a view that exposes exactly the
\* feature rows and adjacency lists of [sum(counts[:k]), sum(counts[:k+1])),
\* and the ranges for k = 0 .. G-1 are disjoint and cover [0, N_total).
C17_ViewExposesRange ==
  (last.op = "getitem" /\ last.err = "none" /\ WellFormed("A")) =>
    /\ last.g \in Objs
    /\ objs[last.g].exists
    /\ objs[last.g].is_subgraph
    /\ objs[last.g].offset = last.a
    /\ LET r == RangeOf(Counts("A"), last.a)
           v == objs[last.g]
       IN /\ node_tensor(v, store[v.st]) = Slice(Features("A"), r.start, r.stop)
          /\ adjacency(v, store[v.st]) = Slice(Lists("A"), r.start, r.stop)
    /\ \A k \in 0 .. Len(Counts("A")) - 1 :
         /\ RangeOf(Counts("A"), k).start
              = (IF k = 0 THEN 0 ELSE RangeOf(Counts("A"), k - 1).stop)
         /\ RangeOf(Counts("A"), k).start <= RangeOf(Counts("A"), k).stop
    /\ RangeOf(Counts("A"), Len(Counts("A")) - 1).stop = Len(Features("A"))

(* ----------------------------------------------------------------------- *)
\* C20: merging never modifies or aliases its inputs: append(A, B) leaves
\* B's graph count, counts, adjacency, features and partitions unchanged,
\* batch_graphs leaves every input graph unchanged, and an add_node or
\* add_edge on the merged batch (directly or through its view) changes no
\* input batch; the two batches never share their lists.
Untouched(g) ==
  /\ objs'[g] = objs[g]
  /\ store'[objs[g].st] = store[objs[g].st]
  /\ part'[g] = part[g]

GetOrEmpty(items, kind) == IF HasKey(items, kind) THEN Get(items, kind) ELSE <<>>

C12_PartitionedAppend ==
  [][ (/\ last'.op = "append"
       /\ part["A"].cls = "partitioned"
       /\ part["B"].cls = "partitioned"
       /\ WellFormed("A")
       /\ WellFormed("B"))
      => /\ last'.err = "none"
         /\ \A kind \in AllKinds :
              (HasKey(part["A"].items, kind) \/ HasKey(part["B"].items, kind))
                => /\ HasKey(part'["A"].items, kind)
                   /\ Get(part'["A"].items, kind) =
                        GetOrEmpty(part["A"].items, kind) \o
                        [i \in 1 .. Len(GetOrEmpty(part["B"].items, kind)) |->
                           GetOrEmpty(part["B"].items, kind)[i]
                             + Len(Features("A"))]
         /\ objs'["A"].node_tensor = Features("A") \o Features("B")
         /\ objs'["A"].num_graphs = objs["A"].num_graphs + objs["B"].num_graphs
    ]_vars

(* ----------------------------------------------------------------------- *)
\* C14: the neighbourhood module in augment mode with a partition selected:
\* the call succeeds, every row keeps its original feature columns, the rows
\* of the active partition gain the aggregated columns, and the rows outside
\* it gain nothing but padding.
ActiveSet(o, sel) ==
  {ActiveNodes(o, sel)[i] : i \in 1 .. Len(ActiveNodes(o, sel))}

C14_AugmentActivePartition ==
  [][ (/\ last'.op = "forward"
       /\ last'.g \in Kinds
       /\ WellFormed("A")
       /\ HasKey(part["A"].items, last'.g)
       /\ Get(part["A"].items, last'.g) # <<>>)
      => /\ last'.err = "none"
         /\ Len(objs'["A"].node_tensor) = Len(Features("A"))
         /\ \A i \in 1 .. Len(Features("A")) :
              LET old == Features("A")[i]
                  new == objs'["A"].node_tensor[i]
              IN /\ Len(new) >= Len(old)
                 /\ SubSeq(new, 1, Len(old)) = old
                 /\ (i - 1) \in ActiveSet("A", last'.g) => Len(new) > Len(old)
                 /\ (i - 1) \notin ActiveSet("A", last'.g)
                      => \A c \in Len(old) + 1 .. Len(new) : new[c] = 0
    ]_vars

(* ----------------------------------------------------------------------- *)
\* C19: in every state reached from an empty partitioned batch by add_kind
\* and add_node calls (kinds registered before use, add_kind possibly
\* repeated), every node index below the node count appears exactly once
\* across all partitions, in the partition named by the kind of the add_node
\* call that created it.
RECURSIVE Occurrences(_, _)
Occurrences(seq, n) ==
  IF seq = <<>> THEN 0
  ELSE (IF Head(seq) = n THEN 1 ELSE 0) + Occurrences(Tail(seq), n)

RECURSIVE AllIndices(_)
AllIndices(items) ==
  IF items = <<>> THEN <<>> ELSE items[1].nodes \o AllIndices(Tail(items))

C19_PartitionInvariant ==
  \A r \in Roots :
    (/\ objs[r].exists
     /\ part[r].cls = "partitioned"
     /\ ~part[r].unregistered
     /\ ~part[r].appended)
    => \A n \in 0 .. Len(Features(r)) - 1 :
         /\ Occurrences(AllIndices(part[r].items), n) = 1
         /\ HasKey(part[r].items, part[r].made[n + 1])
         /\ Occurrences(Get(part[r].items, part[r].made[n + 1]), n) = 1

(* ----------------------------------------------------------------------- *)
\* C13: the depth-d traversal from a start node v returns, without
\* duplicates, exactly the nodes reachable from v in at most d edges (depth 0
\* gives {v}), whatever the order of the adjacency lists; on the path
\* 0-1-2-3-4 from node 2 this is {2}, {1,2,3}, {0,1,2,3,4} for d = 0, 1, 2.
RECURSIVE Ball(_, _, _)
Ball(g, v, d) ==
  IF d = 0 THEN {v}
  ELSE LET inner == Ball(g, v, d - 1)
       IN inner \cup UNION {Range(g[u + 1]) : u \in inner}

C13_TraversalIsBall ==
  trav.pc = "done" =>
    /\ Range(trav.result) = Ball(trav.graph, trav.entity, trav.depth)
    /\ Cardinality(Range(trav.result)) = Len(trav.result)
    /\ (trav.graph \in {PathAscending, PathDescending} /\ trav.entity = 2) =>
         /\ trav.depth = 0 => Range(trav.result) = {2}
         /\ trav.depth = 1 => Range(trav.result) = {1, 2, 3}
         /\ trav.depth >= 2 => Range(trav.result) = {0, 1, 2, 3, 4}

\* the depth-2 run from the middle of the path with descending lists is over
C13_Witness ==
  /\ trav.pc = "done"
  /\ trav.graph = PathDescending
  /\ trav.entity = 2
  /\ trav.depth = 2
  /\ Range(trav.result) = {0, 1, 2, 3, 4}

(* ----------------------------------------------------------------------- *)
\* C18: the traversal terminates for every depth d on every graph, also with
\* cycles, self-loops and repeated entries, and the nesting of pending
\* expansions (calls inside their loop over the neighbours) never exceeds d.
RECURSIVE PendingExpansions(_)
PendingExpansions(stack) ==
  IF stack = <<>> THEN 0
  ELSE (IF Head(stack).d # 0 THEN 1 ELSE 0) + PendingExpansions(Tail(stack))

ZeroVector == [c \in 1 .. MsgWidth |-> Rat(0, 1)]

C15_EmptyNeighbourhood ==
  (red.pc = "returned" /\ red.msgs = <<>>) =>
    /\ red.out.err = "none"
    /\ red.kind \in StatisticKinds => red.out.value = ZeroVector
    /\ red.kind \in AttentionKinds =>
         red.out.value = [c \in 1 .. MsgWidth |-> Rat(red.own[c], 1)]

(* ----------------------------------------------------------------------- *)
\* C16: pooling nodes of two or more groups, the output has exactly one row
\* for every non-empty group, in ascending order of group id and none for an
\* empty group, and the attention weights of the nodes sharing a group id
\* sum to 1 within that group.
C16_OneRowPerGroup ==
  (pool.pc = "returned" /\ Cardinality(Range(pool.indices)) >= 2) =>
    /\ pool.out.err = "none"
    /\ Len(pool.out.rows) = Cardinality(Range(pool.indices))
    /\ \A g \in Range(pool.indices) :
         \E i \in 1 .. Len(pool.indices) :
           /\ pool.indices[i] = g
           /\ Sum([j \in 1 .. Len(pool.indices) |->
                     IF pool.indices[j] = g THEN pool.weight[j].num ELSE 0])
                = pool.weight[i].den

====
